---- MODULE Spec2Model ----
(***************************************************************************)
(* A model of cockpit's metric samplers (src/cockpit/samples.py).          *)
(*                                                                         *)
(* The Sample Sink is the dict handed to Sampler.sample: a set of entries  *)
(* [name, inst, key, val]; a scalar entry has inst = FALSE and key = "",   *)
(* an instanced one is the value under samples[name][key].  Numbers are    *)
(* exact fractions [num, den], so that "value / 1000" and                  *)
(* "ticks * MS_PER_JIFFY" are kept as the code computes them.              *)
(***************************************************************************)
EXTENDS Integers, Sequences, FiniteSets, TLC

VARIABLES
    hwmon,      \* /sys/class/hwmon: sequence of devices hwmon0.. [name, labels]
    sensors,    \* CPUTemperatureSampler.sensors, the class-level cache
    scans,      \* how many times the hwmon scan of sample() has been entered
    sink,       \* the samples dict
    lastSrc,    \* the sampler whose sample() last ran on this dict, "" if none
    status,     \* "ok", or "failed" when the last sample() raised
    wlog,       \* the assignments of that sample(): set of [name, inst, key]
    rlog,       \* sensor reads of the last temperature pass: seq of [path, temp]
    pc,         \* position of each concurrent temperature pass
    idx,        \* loop index of each concurrent temperature pass
    diskstats,  \* /proc/diskstats as the last DiskSampler pass read it
    cgroups_v2, \* CGroupSampler.cgroups_v2 of the instance: "None", "True", "False"
    ctlExists,  \* whether /sys/fs/cgroup/cgroup.controllers exists now
    ctlAtPass,  \* whether it existed when the last CGroupSampler pass ran
    cgfs,       \* the directories below /sys/fs/cgroup, in walk order, with their files
    probes,     \* how many times sample() has called os.path.exists
    opened      \* files the last CGroupSampler pass opened: set of [cgroup, file]

tempVars == <<hwmon, sensors, scans, rlog>>
threadVars == <<pc, idx>>
diskVars == <<diskstats>>
cgVars == <<cgroups_v2, ctlExists, ctlAtPass, cgfs, probes, opened>>
passVars == <<sink, lastSrc, status, wlog>>

vars == <<tempVars, threadVars, diskVars, cgVars, passVars>>

----------------------------------------------------------------------------
(* Bounds *)

MaxHwmonFiles == 4
MaxScans == 2
MaxDiskLines == 2
MaxCgroups == 2
MaxOddFiles == 1
NumThreads == 2

----------------------------------------------------------------------------
(* Generic helpers *)

SeqsUpTo(S, n) == UNION {[1..k -> S] : k \in 0..n}

Range(s) == {s[i] : i \in DOMAIN s}

NoDuplicates(s) == \A i, j \in DOMAIN s : i # j => s[i] # s[j]

Num(n) == [num |-> n, den |-> 1]

Frac(n, d) == [num |-> n, den |-> d]

----------------------------------------------------------------------------
(* The Sample Sink: Python dict assignment *)

\* samples[name] = val
PutScalar(s, name, val) ==
    {e \in s : e.name # name}
        \cup {[name |-> name, inst |-> FALSE, key |-> "", val |-> val]}

\* samples[name][key] = val
PutInst(s, name, key, val) ==
    {e \in s : ~(e.name = name /\ (~e.inst \/ e.key = key))}
        \cup {[name |-> name, inst |-> TRUE, key |-> key, val |-> val]}

\* the same assignments on a pass state st, a record with the fields sink
\* and writes (the log of the assignments of this sample() call)
LogScalar(st, name, val) ==
    [st EXCEPT !.sink = PutScalar(st.sink, name, val),
               !.writes = st.writes \cup {[name |-> name, inst |-> FALSE, key |-> ""]}]

LogInst(st, name, key, val) ==
    [st EXCEPT !.sink = PutInst(st.sink, name, key, val),
               !.writes = st.writes \cup {[name |-> name, inst |-> TRUE, key |-> key]}]

----------------------------------------------------------------------------
(* CPU-Temperature Source *)

Absent == "<absent>"

\* contents of a hwmonN/name file
HwmonNameFiles == {"coretemp\n", "cpu_thermal\n", "atk0110\n", "acpitz\n"}

\* contents of a tempN_label file, or Absent when the file does not exist
LabelFiles == {Absent, "\n", "Core 0\n", "CPU Temperature\n", "Tctl\n"}

\* contents of a tempN_input file
TempFiles == {"0\n", "45000\n"}

\* str.strip() on the file contents above
Strip(text) ==
    CASE text = "coretemp\n" -> "coretemp"
      [] text = "cpu_thermal\n" -> "cpu_thermal"
      [] text = "atk0110\n" -> "atk0110"
      [] text = "acpitz\n" -> "acpitz"
      [] text = "\n" -> ""
      [] text = "Core 0\n" -> "Core 0"
      [] text = "CPU Temperature\n" -> "CPU Temperature"
      [] text = "Tctl\n" -> "Tctl"
      [] text = "0\n" -> "0"
      [] text = "45000\n" -> "45000"
      [] OTHER -> text

cpu_names == {"coretemp", "cpu_thermal", "k8temp", "k10temp", "atk0110"}

SensorPath(hwmonid, index) ==
    "/sys/class/hwmon/hwmon" \o ToString(hwmonid) \o "/temp" \o ToString(index) \o "_input"

\* the inclusion test of detect_cpu_sensors on a label that was read
Included(name, label) ==
    IF label # ""
    THEN ~(label # "CPU Temperature" /\ name = "atk0110") /\ label # "Tctl"
    ELSE name = "cpu_thermal"

\* detect_cpu_sensors from temp<index>: the cache after it, and whether
\* open() of a label file raised FileNotFoundError
RECURSIVE DetectFrom(_, _, _, _, _)
DetectFrom(hwmonid, name, labels, index, acc) ==
    IF index > Len(labels)
    THEN [sensors |-> acc, raised |-> FALSE]
    ELSE IF labels[index] = Absent
    THEN [sensors |-> acc, raised |-> TRUE]
    ELSE DetectFrom(hwmonid, name, labels, index + 1,
                    IF Included(name, Strip(labels[index]))
                    THEN Append(acc, SensorPath(hwmonid, index))
                    ELSE acc)

detect_cpu_sensors(hwmonid, name, labels, acc) ==
    DetectFrom(hwmonid, name, labels, 1, acc)

\* one iteration of the hwmon loop of sample(): device number i (0-based)
ScanDevice(tree, i, acc) ==
    IF i + 1 > Len(tree)
    THEN [sensors |-> acc, stop |-> TRUE]
    ELSE LET name == Strip(tree[i + 1].name) IN
         IF name \in cpu_names
         THEN LET r == detect_cpu_sensors(i, name, tree[i + 1].labels, acc)
              IN [sensors |-> r.sensors, stop |-> r.raised]
         ELSE [sensors |-> acc, stop |-> FALSE]

RECURSIVE ScanFrom(_, _, _)
ScanFrom(tree, i, acc) ==
    LET r == ScanDevice(tree, i, acc) IN
    IF r.stop THEN r.sensors ELSE ScanFrom(tree, i + 1, r.sensors)

\* the discovery block of sample(): runs when the cache is empty
Discover(tree, cache) == IF cache = <<>> THEN ScanFrom(tree, 0, cache) ELSE cache

ParseInt(text) ==
    CASE Strip(text) = "0" -> 0
      [] Strip(text) = "45000" -> 45000

\* one iteration of the reading loop of sample() that writes: the sink and
\* the write log after it
WriteTemp(s, writes, path, temperature) ==
    LogInst([sink |-> s, writes |-> writes], "cpu.temperature", path, Frac(temperature, 1000))

\* the reading loop with "continue" in the place of "return"
RECURSIVE ReadFromSkipZero(_, _, _, _, _, _)
ReadFromSkipZero(cache, temps, i, s, log, writes) ==
    IF i > Len(cache)
    THEN [sink |-> s, rlog |-> log, writes |-> writes]
    ELSE LET temperature == ParseInt(temps[i])
             log2 == Append(log, [path |-> cache[i], temp |-> temperature])
             w == WriteTemp(s, writes, cache[i], temperature)
         IN IF temperature = 0
            THEN ReadFromSkipZero(cache, temps, i + 1, s, log2, writes)
            ELSE ReadFromSkipZero(cache, temps, i + 1, w.sink, log2, w.writes)

\* the reading loop of sample() from position i of the cache
RECURSIVE ReadFrom(_, _, _, _, _, _)
ReadFrom(cache, temps, i, s, log, writes) ==
    IF i > Len(cache)
    THEN [sink |-> s, rlog |-> log, writes |-> writes]
    ELSE LET temperature == ParseInt(temps[i])
             log2 == Append(log, [path |-> cache[i], temp |-> temperature])
             w == WriteTemp(s, writes, cache[i], temperature)
         IN IF temperature = 0
            THEN [sink |-> s, rlog |-> log2, writes |-> writes]
            ELSE ReadFrom(cache, temps, i + 1, w.sink, log2, w.writes)

\* the labels of device d, when sensor k of the flat list fl belongs to
\* device owner[k]
RECURSIVE LabelsOf(_, _, _, _)
LabelsOf(fl, owner, d, k) ==
    IF k > Len(fl) THEN <<>>
    ELSE IF owner[k] = d THEN <<fl[k]>> \o LabelsOf(fl, owner, d, k + 1)
    ELSE LabelsOf(fl, owner, d, k + 1)

\* the hwmon tree is one holding at most MaxHwmonFiles files named "name"
\* or "tempN_input" (d devices and s sensors, d + s <= MaxHwmonFiles)
HwmonTree(tree) ==
    \E d \in 0..MaxHwmonFiles : \E s \in 0..(MaxHwmonFiles - d) :
    \E ns \in [1..d -> HwmonNameFiles] : \E fl \in [1..s -> LabelFiles] :
    \E owner \in [1..s -> 1..d] :
        /\ \A a, b \in 1..s : a <= b => owner[a] <= owner[b]
        /\ tree = [i \in 1..d |-> [name |-> ns[i], labels |-> LabelsOf(fl, owner, i, 1)]]

InitCommon ==
    /\ sensors = <<>>
    /\ scans = 0
    /\ sink = {}
    /\ lastSrc = ""
    /\ status = "ok"
    /\ wlog = {}
    /\ rlog = <<>>
    /\ pc = [t \in 1..NumThreads |-> "idle"]
    /\ idx = [t \in 1..NumThreads |-> 0]
    /\ diskstats = <<>>
    /\ cgroups_v2 = "None"
    /\ ctlAtPass = FALSE
    /\ probes = 0
    /\ opened = {}

\* the external driver hands out a fresh dict
NewSink ==
    /\ sink # {} \/ lastSrc # ""
    /\ sink' = {}
    /\ lastSrc' = ""
    /\ wlog' = {}
    /\ UNCHANGED <<tempVars, threadVars, diskVars, cgVars, status>>

\* CPUTemperatureSampler.sample, one whole pass
TempSample ==
    /\ sensors # <<>> \/ scans < MaxScans
    /\ LET cache == Discover(hwmon, sensors) IN
       \E temps \in [1..Len(cache) -> TempFiles] :
           LET r == ReadFrom(cache, temps, 1, sink, <<>>, {}) IN
           /\ sensors' = cache
           /\ scans' = IF sensors = <<>> THEN scans + 1 ELSE scans
           /\ sink' = r.sink
           /\ rlog' = r.rlog
           /\ wlog' = r.writes
    /\ lastSrc' = "CPUTemperatureSampler"
    /\ status' = "ok"
    /\ UNCHANGED <<hwmon, threadVars, diskVars, cgVars>>

\* a host with no cgroup directory below the root
NoCgroups == ctlExists = TRUE /\ cgfs = <<>>

InitTemp == InitCommon /\ HwmonTree(hwmon) /\ NoCgroups

NextTemp == TempSample \/ NewSink

SpecTemp == InitTemp /\ [][NextTemp]_vars

----------------------------------------------------------------------------
(* CPU-Temperature Source, passes running concurrently on the shared cache *)

\* sample() is entered: "if not self.sensors"
TCheck(t) ==
    /\ pc[t] = "idle"
    /\ IF sensors = <<>>
       THEN /\ pc' = [pc EXCEPT ![t] = "scan"]
            /\ idx' = [idx EXCEPT ![t] = 0]
            /\ scans' = scans + 1
       ELSE /\ pc' = [pc EXCEPT ![t] = "read"]
            /\ idx' = [idx EXCEPT ![t] = 1]
            /\ scans' = scans
    /\ UNCHANGED <<hwmon, sensors, rlog, diskVars, cgVars, passVars>>

\* one iteration of "for index in range(0, 2 ** 32)"
TScan(t) ==
    /\ pc[t] = "scan"
    /\ LET r == ScanDevice(hwmon, idx[t], sensors) IN
       /\ sensors' = r.sensors
       /\ IF r.stop
          THEN /\ pc' = [pc EXCEPT ![t] = "read"]
               /\ idx' = [idx EXCEPT ![t] = 1]
          ELSE /\ pc' = pc
               /\ idx' = [idx EXCEPT ![t] = idx[t] + 1]
    /\ UNCHANGED <<hwmon, scans, rlog, diskVars, cgVars, passVars>>

\* one iteration of "for sensor_path in self.sensors", or its end
TRead(t) ==
    /\ pc[t] = "read"
    /\ IF idx[t] > Len(sensors)
       THEN /\ pc' = [pc EXCEPT ![t] = "done"]
            /\ UNCHANGED <<idx, sink, wlog>>
       ELSE \E temp \in TempFiles :
            IF ParseInt(temp) = 0
            THEN /\ pc' = [pc EXCEPT ![t] = "done"]
                 /\ UNCHANGED <<idx, sink, wlog>>
            ELSE LET w == WriteTemp(sink, wlog, sensors[idx[t]], ParseInt(temp)) IN
                 /\ sink' = w.sink
                 /\ wlog' = w.writes
                 /\ idx' = [idx EXCEPT ![t] = idx[t] + 1]
                 /\ pc' = pc
    /\ lastSrc' = "CPUTemperatureSampler"
    /\ UNCHANGED <<tempVars, diskVars, cgVars, status>>

NextTempConc == \E t \in 1..NumThreads : TCheck(t) \/ TScan(t) \/ TRead(t)

SpecTempConc == InitTemp /\ [][NextTempConc]_vars

----------------------------------------------------------------------------
(* Claims about the CPU-Temperature Source *)

\* C1: sensor discovery (the scan of the hwmon device directories) runs at
\* most once over all sampling passes, whatever the hwmon tree contains.
C1_DiscoveryAtMostOnce == scans <= 1

\* the sensors that the inclusion rule of the specification selects
RuleIncludes(name, labelFile) ==
    LET present == labelFile # Absent /\ Strip(labelFile) # ""
        label == Strip(labelFile)
    IN /\ name \in cpu_names
       /\ IF present
          THEN ~(name = "atk0110" /\ label # "CPU Temperature") /\ label # "Tctl"
          ELSE name = "cpu_thermal"

RECURSIVE RuleSensors(_, _, _)
RuleSensors(tree, d, k) ==
    IF d > Len(tree) THEN <<>>
    ELSE IF k > Len(tree[d].labels) THEN RuleSensors(tree, d + 1, 1)
    ELSE (IF RuleIncludes(Strip(tree[d].name), tree[d].labels[k])
          THEN <<SensorPath(d - 1, k)>> ELSE <<>>) \o RuleSensors(tree, d, k + 1)

\* C7: after discovery the cache holds exactly the sensors that satisfy the
\* inclusion rule, over every hwmon device and every tempN_input of it; a
\* missing tempN_label hides no sensor of a later index or a later device.
C7_CacheIsRuleSensors == scans > 0 => sensors = RuleSensors(hwmon, 1, 1)

ZeroRead(log) == \E i \in DOMAIN log : log[i].temp = 0

FirstZero(log) == CHOOSE i \in DOMAIN log : log[i].temp = 0 /\ \A j \in 1..(i - 1) : log[j].temp # 0

\* C6 as stated: in a pass in which a cached sensor reads exactly zero, the
\* pass adds no cpu.temperature entry to the sink and no sensor after the
\* zero-reading one is read or written.
C6_ZeroPassWritesNothing ==
    lastSrc = "CPUTemperatureSampler" /\ ZeroRead(rlog) =>
        wlog = {} /\ Len(rlog) = FirstZero(rlog)

\* C6 amended: in a pass in which a cached sensor reads exactly zero, the
\* sensors read are exactly the cache up to and including the first
\* zero-reading one, and the entries written are exactly those of the
\* sensors before it: the zero-reading sensor and every later one get none.
C6_ZeroStopsRemaining ==
    lastSrc = "CPUTemperatureSampler" /\ ZeroRead(rlog) =>
        LET z == FirstZero(rlog) IN
        /\ Len(rlog) = z
        /\ \A i \in 1..z : rlog[i].path = sensors[i]
        /\ {w.key : w \in wlog} = {sensors[i] : i \in 1..(z - 1)}
        /\ \A i \in 1..(z - 1) :
               [name |-> "cpu.temperature", inst |-> TRUE, key |-> sensors[i],
                val |-> Frac(rlog[i].temp, 1000)] \in sink

\* a pass over three cached sensors in which the second one read zero
C6_Witness ==
    /\ lastSrc = "CPUTemperatureSampler"
    /\ Len(sensors) >= 3
    /\ Len(rlog) = 2
    /\ rlog[1].temp # 0
    /\ rlog[2].temp = 0
    /\ wlog # {}
    /\ sink # {}

\* C9: with passes running concurrently on the empty cache, the cache is
\* initialized once: in every reachable state the cached sensor list holds
\* each sensor path at most once.
C9_SingleInitialization == NoDuplicates(sensors)

----------------------------------------------------------------------------
(* Python values: what "==" between a str and an int gives *)

PyStr(text) == [type |-> "str", text |-> text, n |-> 0]

PyInt(n) == [type |-> "int", text |-> "", n |-> n]

\* a == b: values of different types are never equal
PyEq(a, b) == a.type = b.type /\ a.text = b.text /\ a.n = b.n

\* int(text) on a decimal field of /proc/diskstats
DecimalValue(text) ==
    CASE text = "0" -> 0
      [] text = "1" -> 1
      [] text = "2" -> 2
      [] text = "3" -> 3
      [] text = "5" -> 5
      [] text = "8" -> 8
      [] text = "9" -> 9
      [] text = "16" -> 16
      [] text = "10" -> 10
      [] text = "20" -> 20
      [] text = "40" -> 40
      [] text = "50" -> 50
      [] text = "100" -> 100
      [] text = "200" -> 200
      [] text = "300" -> 300
      [] text = "900" -> 900
      [] text = "1000" -> 1000

\* the characters of a device name
Chars(text) ==
    CASE text = "sda" -> <<"s", "d", "a">>
      [] text = "sda1" -> <<"s", "d", "a", "1">>
      [] text = "dm-0" -> <<"d", "m", "-", "0">>
      [] text = "md0" -> <<"m", "d", "0">>
      [] text = "nvme0n1" -> <<"n", "v", "m", "e", "0", "n", "1">>
      [] text = "nvme0n1p1" -> <<"n", "v", "m", "e", "0", "n", "1", "p", "1">>
      [] text = "cpu" -> <<"c", "p", "u">>
      [] text = "cpu0" -> <<"c", "p", "u", "0">>
      [] text = "intr" -> <<"i", "n", "t", "r">>
      [] text = "Inter-|" -> <<"I", "n", "t", "e", "r", "-", "|">>
      [] text = "face" -> <<"f", "a", "c", "e">>
      [] text = "lo:" -> <<"l", "o", ":">>
      [] text = "eth0:" -> <<"e", "t", "h", "0", ":">>
      [] text = "/dev/sda1" -> <<"/", "d", "e", "v", "/", "s", "d", "a", "1">>
      [] text = "proc" -> <<"p", "r", "o", "c">>

\* the text of a character sequence
RECURSIVE Text(_)
Text(chars) == IF chars = <<>> THEN "" ELSE Head(chars) \o Text(Tail(chars))

Digits == {"0", "1", "2", "3", "4", "5", "6", "7", "8", "9"}

\* text.startswith(prefix), on character sequences
StartsWith(chars, prefix) ==
    Len(chars) >= Len(prefix) /\ SubSeq(chars, 1, Len(prefix)) = prefix

----------------------------------------------------------------------------
(* Disk-Aggregate Source *)

\* block devices: major and minor number and name, as /proc/diskstats prints them
DiskDevices ==
    {<<"8", "0", "sda">>, <<"8", "1", "sda1">>, <<"253", "0", "dm-0">>,
     <<"9", "0", "md0">>, <<"259", "0", "nvme0n1">>, <<"259", "1", "nvme0n1p1">>}

\* reads merged, sectors read, writes merged, sectors written
DiskCounters == {<<"3", "8", "5", "16">>, <<"0", "2", "1", "0">>}

\* line.strip().split() of one line of /proc/diskstats
DiskLine(dev, c) ==
    <<dev[1], dev[2], dev[3], "9", c[1], c[2], "0", "9", c[3], c[4], "0", "0", "0", "0">>

DiskLines == {DiskLine(dev, c) : dev \in DiskDevices, c \in DiskCounters}

\* "ignore device-mapper and md": dev_major == 253 or dev_major == 9, with
\* dev_major a field of split()
SkipMajor(dev_major) ==
    PyEq(PyStr(dev_major), PyInt(253)) \/ PyEq(PyStr(dev_major), PyInt(9))

\* dev_name[:2] in ['sd', 'hd', 'vd'] and dev_name[-1].isdigit()
SkipPartition(dev_name) ==
    LET chars == Chars(dev_name) IN
    /\ SubSeq(chars, 1, 2) \in {<<"s", "d">>, <<"h", "d">>, <<"v", "d">>}
    /\ chars[Len(chars)] \in Digits

\* dev_name.startswith('nvme') and 'p' in dev_name
SkipNvmePartition(dev_name) ==
    LET chars == Chars(dev_name) IN
    StartsWith(chars, <<"n", "v", "m", "e">>) /\ "p" \in Range(chars)

\* the loop of DiskSampler.sample over the lines from position i
RECURSIVE DiskTotals(_, _, _)
DiskTotals(lines, i, acc) ==
    IF i > Len(lines) THEN acc
    ELSE LET line == lines[i]
             dev_major == line[1]
             dev_name == line[3]
             num_reads_merged == line[5]
             num_sectors_read == line[6]
             num_writes_merged == line[9]
             num_sectors_written == line[10]
         IN IF SkipMajor(dev_major) \/ SkipPartition(dev_name) \/ SkipNvmePartition(dev_name)
            THEN DiskTotals(lines, i + 1, acc)
            ELSE DiskTotals(lines, i + 1,
                     [bytes_read |-> acc.bytes_read + DecimalValue(num_sectors_read) * 512,
                      bytes_written |-> acc.bytes_written + DecimalValue(num_sectors_written) * 512,
                      num_ops |-> acc.num_ops + DecimalValue(num_reads_merged)
                                              + DecimalValue(num_writes_merged)])

ZeroTotals == [bytes_read |-> 0, bytes_written |-> 0, num_ops |-> 0]

\* the three assignments that end DiskSampler.sample
DiskWrites(st, t) ==
    LogScalar(LogScalar(LogScalar(st, "disk.all.read", Num(t.bytes_read)),
                        "disk.all.written", Num(t.bytes_written)),
              "disk.all.ops", Num(t.num_ops))

NoWrites(s) == [sink |-> s, writes |-> {}]

\* DiskSampler.sample on the given /proc/diskstats
DiskSample(lines) ==
    /\ diskstats' = lines
    /\ LET r == DiskWrites(NoWrites(sink), DiskTotals(lines, 1, ZeroTotals)) IN
       sink' = r.sink /\ wlog' = r.writes
    /\ lastSrc' = "DiskSampler"
    /\ status' = "ok"
    /\ UNCHANGED <<tempVars, threadVars, cgVars>>

\* a host without temperature sensors
NoHwmon == hwmon = <<>>

InitDisk == InitCommon /\ NoHwmon /\ NoCgroups

NextDisk == (\E lines \in SeqsUpTo(DiskLines, MaxDiskLines) : DiskSample(lines)) \/ NewSink

SpecDisk == InitDisk /\ [][NextDisk]_vars

RECURSIVE WithoutMajors(_, _)
WithoutMajors(lines, majors) ==
    IF lines = <<>> THEN <<>>
    ELSE (IF Head(lines)[1] \in majors THEN <<>> ELSE <<Head(lines)>>)
             \o WithoutMajors(Tail(lines), majors)

\* C2: a line whose major number is 253 or 9 contributes zero to the three
\* totals: the totals written are those of the same input without such lines.
C2_MapperAndRaidSkipped ==
    lastSrc = "DiskSampler" =>
        sink = DiskWrites(NoWrites({}),
                          DiskTotals(WithoutMajors(diskstats, {"253", "9"}), 1, ZeroTotals)).sink

----------------------------------------------------------------------------
(* CGroup Source *)

\* sys.maxsize (of a 32-bit build; only compared, never computed with)
MaxSize == 2147483647

cgroups_v2_path == "/sys/fs/cgroup/"

Missing == [exists |-> FALSE, text |-> "", lines |-> <<>>]

TextFile(text) == [exists |-> TRUE, text |-> text, lines |-> <<>>]

\* a keyed file: its lines, each one as line.split() gives it
KeyedFile(lines) == [exists |-> TRUE, text |-> "", lines |-> lines]

\* int(text.strip()): the value, or ValueError
IntValue(text) ==
    CASE text \in {"4096\n", "4096"} -> [ok |-> TRUE, value |-> 4096]
      [] text \in {"5000\n", "5000"} -> [ok |-> TRUE, value |-> 5000]
      [] text \in {"3000\n", "3000"} -> [ok |-> TRUE, value |-> 3000]
      [] text \in {"0\n", "0"} -> [ok |-> TRUE, value |-> 0]
      [] text \in {"-1\n", "-1"} -> [ok |-> TRUE, value |-> 0 - 1]
      [] text \in {"2147483647\n", "2147483647"} -> [ok |-> TRUE, value |-> MaxSize]
      [] OTHER -> [ok |-> FALSE, value |-> 0]

\* the integer files of a cgroup and the metric of each, in the order of sample()
CgIntFiles ==
    <<[file |-> "memory.current", name |-> "cgroup.memory.usage"],
      [file |-> "memory.max", name |-> "cgroup.memory.limit"],
      [file |-> "memory.swap.current", name |-> "cgroup.memory.sw-usage"],
      [file |-> "memory.swap.max", name |-> "cgroup.memory.sw-limit"],
      [file |-> "cpu.weight", name |-> "cgroup.cpu.shares"]>>

CgFileNames == {CgIntFiles[i].file : i \in DOMAIN CgIntFiles} \cup {"cpu.stat"}

\* what the kernel normally shows, and the other contents a file can have
PlainInt == TextFile("4096\n")
OddInt == <<Missing, TextFile("max\n"), TextFile("0\n"), TextFile("-1\n"), TextFile("2147483647\n")>>
PlainStat == KeyedFile(<<<<"usage_usec", "5000">>, <<"user_usec", "3000">>>>)
OddStat ==
    <<Missing,
      KeyedFile(<<<<"usage_usec", "0">>, <<"user_usec", "0">>>>),
      KeyedFile(<<<<"usage_usec", "2147483647">>, <<"user_usec", "3000">>>>),
      KeyedFile(<<<<"nr_periods", "0">>, <<"throttled_time", "0">>>>)>>

\* directories below the root, in the order os.walk yields them
CgroupDirs ==
    <<<<"system.slice">>, <<"system.slice", "sshd.service">>,
      <<"user.slice">>, <<"user.slice", "user-1000.slice">>>>

CgFileOrder ==
    <<"memory.current", "memory.max", "memory.swap.current", "memory.swap.max",
      "cpu.weight", "cpu.stat">>

\* the cgroup tree has at most MaxCgroups directories below the root, and at
\* most MaxOddFiles of their files differ from the plain contents
CgroupFs(fs) ==
    \E n \in 0..MaxCgroups : n <= Len(CgroupDirs) /\
    \E k \in 0..MaxOddFiles :
    \E place \in [1..k -> 1..(6 * n)] : \E alt \in [1..k -> 1..5] :
        /\ \A a, b \in 1..k : a < b => place[a] < place[b]
        /\ \A a \in 1..k : ((place[a] - 1) % 6) + 1 = 6 => alt[a] <= Len(OddStat)
        /\ fs = [d \in 1..n |->
                  [path |-> CgroupDirs[d],
                   files |-> [f \in CgFileNames |->
                       LET pos == CHOOSE j \in 1..6 : CgFileOrder[j] = f
                           at == {a \in 1..k : place[a] = 6 * (d - 1) + pos}
                       IN IF at = {}
                          THEN (IF f = "cpu.stat" THEN PlainStat ELSE PlainInt)
                          ELSE LET a == CHOOSE x \in at : TRUE
                               IN IF f = "cpu.stat" THEN OddStat[alt[a]] ELSE OddInt[alt[a]]]]]

RECURSIVE JoinPath(_)
JoinPath(parts) ==
    IF parts = <<>> THEN ""
    ELSE IF Len(parts) = 1 THEN parts[1]
    ELSE parts[1] \o "/" \o JoinPath(Tail(parts))

\* the components of cgroups_v2_path
RootParts == <<"sys", "fs", "cgroup">>

\* path.replace(self.cgroups_v2_path, '') on a path os.walk yields, given by
\* its components (no directory below the root repeats the root's own path)
RelativeKey(parts) ==
    IF Len(parts) >= Len(RootParts) /\ SubSeq(parts, 1, Len(RootParts)) = RootParts
    THEN JoinPath(SubSeq(parts, Len(RootParts) + 1, Len(parts)))
    ELSE JoinPath(parts)

\* the version probe that always looks at the filesystem
ProbeEveryPass(flag, exists, n) ==
    [flag |-> IF exists THEN "True" ELSE "False", probes |-> n + 1]

\* "if self.cgroups_v2 is None: self.cgroups_v2 = os.path.exists(...)"
Probe(flag, exists, n) ==
    IF flag = "None"
    THEN [flag |-> IF exists THEN "True" ELSE "False", probes |-> n + 1]
    ELSE [flag |-> flag, probes |-> n]

\* the state of a walk: the sink, the writes and opens so far, and whether
\* an exception left sample()
Opened(st, cgroup, file) == st.opened \cup {[cgroup |-> cgroup, file |-> file]}

\* read_cgroup_integer_stat with ">= 0" in the place of "> 0"
ReadIntegerZeroAllowed(st, content, file, cgroup, name) ==
    IF ~content.exists THEN st
    ELSE LET st2 == [st EXCEPT !.opened = Opened(st, cgroup, file)]
             parsed == IntValue(content.text)
         IN IF ~parsed.ok THEN st2
            ELSE IF MaxSize > parsed.value /\ parsed.value >= 0
            THEN LogInst(st2, name, cgroup, Num(parsed.value))
            ELSE st2

read_cgroup_integer_stat(st, content, file, cgroup, name) ==
    IF ~content.exists THEN st
    ELSE LET st2 == [st EXCEPT !.opened = Opened(st, cgroup, file)]
             parsed == IntValue(content.text)
         IN IF ~parsed.ok THEN st2
            ELSE IF MaxSize > parsed.value /\ parsed.value > 0
            THEN LogInst(st2, name, cgroup, Num(parsed.value))
            ELSE st2

\* the loop of read_cgroup_keyed_stat over the lines from position i
RECURSIVE KeyedLines(_, _, _, _, _, _)
KeyedLines(st, lines, i, cgroup, name, key) ==
    IF i > Len(lines) THEN st
    ELSE IF lines[i][1] # key THEN KeyedLines(st, lines, i + 1, cgroup, name, key)
    ELSE LET parsed == IntValue(lines[i][Len(lines[i])]) IN
         IF ~parsed.ok THEN [st EXCEPT !.raised = TRUE]
         ELSE IF MaxSize > parsed.value /\ parsed.value > 0
         THEN KeyedLines(LogInst(st, name, cgroup, Frac(parsed.value, 1000)),
                         lines, i + 1, cgroup, name, key)
         ELSE KeyedLines(st, lines, i + 1, cgroup, name, key)

\* open(path) is not guarded: a missing file raises FileNotFoundError
read_cgroup_keyed_stat(st, content, file, cgroup, name, key) ==
    IF ~content.exists THEN [st EXCEPT !.raised = TRUE]
    ELSE KeyedLines([st EXCEPT !.opened = Opened(st, cgroup, file)],
                    content.lines, 1, cgroup, name, key)

\* the five read_cgroup_integer_stat calls of one directory, from call i
RECURSIVE IntegerStats(_, _, _, _)
IntegerStats(st, dir, cgroup, i) ==
    IF i > Len(CgIntFiles) THEN st
    ELSE IntegerStats(read_cgroup_integer_stat(st, dir.files[CgIntFiles[i].file],
                                               CgIntFiles[i].file, cgroup, CgIntFiles[i].name),
                      dir, cgroup, i + 1)

\* the body of the os.walk loop for one directory
WalkDir(st, dir) ==
    LET cgroup == RelativeKey(RootParts \o dir.path) IN
    IF cgroup = "" THEN st
    ELSE read_cgroup_keyed_stat(IntegerStats(st, dir, cgroup, 1), dir.files["cpu.stat"],
                                "cpu.stat", cgroup, "cgroup.cpu.usage", "usage_usec")

RECURSIVE WalkFrom(_, _, _)
WalkFrom(st, dirs, i) ==
    IF i > Len(dirs) \/ st.raised THEN st
    ELSE WalkFrom(WalkDir(st, dirs[i]), dirs, i + 1)

\* os.walk yields the root itself first
RootDir == [path |-> <<>>, files |-> [f \in CgFileNames |-> Missing]]

\* CGroupSampler.sample, one whole pass
CGroupSample ==
    LET p == Probe(cgroups_v2, ctlExists, probes)
        st0 == [sink |-> sink, writes |-> {}, opened |-> {}, raised |-> FALSE]
        st == IF cgroups_v2_path # "" THEN WalkFrom(st0, <<RootDir>> \o cgfs, 1) ELSE st0
    IN /\ cgroups_v2' = p.flag
       /\ probes' = p.probes
       /\ ctlAtPass' = ctlExists
       /\ sink' = st.sink
       /\ wlog' = st.writes
       /\ opened' = st.opened
       /\ status' = IF st.raised THEN "failed" ELSE "ok"
       /\ lastSrc' = "CGroupSampler"
       /\ UNCHANGED <<tempVars, threadVars, diskVars, ctlExists, cgfs>>

\* the filesystem changes: cgroup.controllers appears or disappears
ToggleControllers ==
    /\ ctlExists' = ~ctlExists
    /\ UNCHANGED <<tempVars, threadVars, diskVars, passVars,
                   cgroups_v2, ctlAtPass, cgfs, probes, opened>>

InitCGroup == InitCommon /\ NoHwmon /\ ctlExists \in BOOLEAN /\ CgroupFs(cgfs)

NextCGroup == CGroupSample \/ ToggleControllers \/ NewSink

SpecCGroup == InitCGroup /\ [][NextCGroup]_vars

----------------------------------------------------------------------------
(* Claims about the CGroup Source *)

CgroupPassed == lastSrc = "CGroupSampler"

\* an integer file that is present and holds a value in (0, sys.maxsize)
HoldsValue(content) ==
    /\ content.exists
    /\ content.text \in {"4096\n"}

\* a cpu.stat that is present and has a usage_usec line in (0, sys.maxsize)
HoldsUsage(content) ==
    /\ content.exists
    /\ \E i \in DOMAIN content.lines :
           content.lines[i][1] = "usage_usec" /\ content.lines[i][2] \in {"5000"}

Wrote(name, cgroup) == [name |-> name, inst |-> TRUE, key |-> cgroup] \in wlog

\* C3: each of the six per-cgroup files is optional: whatever files are
\* missing, the pass does not fail and writes the entry of every file that is
\* present (with a value that counts), in every cgroup.
C3_MissingFilesSkipped ==
    CgroupPassed /\ cgroups_v2 = "True" =>
        /\ status = "ok"
        /\ \A d \in DOMAIN cgfs :
               /\ \A i \in DOMAIN CgIntFiles :
                      HoldsValue(cgfs[d].files[CgIntFiles[i].file])
                          => Wrote(CgIntFiles[i].name, JoinPath(cgfs[d].path))
               /\ HoldsUsage(cgfs[d].files["cpu.stat"])
                      => Wrote("cgroup.cpu.usage", JoinPath(cgfs[d].path))

CgIntNames == {CgIntFiles[i].name : i \in DOMAIN CgIntFiles}

\* C4: a value of an integer file reaches the sink only when it parsed and is
\* strictly between 0 and sys.maxsize: "max", 0, a negative value and
\* sys.maxsize give no entry for that cgroup and metric and do not make the
\* pass fail; every entry written from an integer file is > 0 and < sys.maxsize.
C4_OnlyOpenInterval ==
    /\ \A e \in sink : e.name \in CgIntNames =>
           e.inst /\ e.val.den = 1 /\ e.val.num > 0 /\ e.val.num < MaxSize
    /\ CgroupPassed =>
           \A d \in DOMAIN cgfs : \A i \in DOMAIN CgIntFiles :
               cgfs[d].files[CgIntFiles[i].file].text \in {"max\n", "0\n", "-1\n", "2147483647\n"}
                   => ~Wrote(CgIntFiles[i].name, JoinPath(cgfs[d].path))
    /\ (CgroupPassed /\ \A d \in DOMAIN cgfs : cgfs[d].files["cpu.stat"].exists)
           => status = "ok"

\* a pass met a memory.max holding "max": no limit for that cgroup, its
\* other entries written, the pass not failed
C4_Witness ==
    /\ CgroupPassed
    /\ status = "ok"
    /\ \E d \in DOMAIN cgfs :
           /\ cgfs[d].files["memory.max"].text = "max\n"
           /\ ~Wrote("cgroup.memory.limit", JoinPath(cgfs[d].path))
           /\ Wrote("cgroup.memory.usage", JoinPath(cgfs[d].path))
           /\ \E e \in sink : e.name = "cgroup.memory.usage" /\ e.key = JoinPath(cgfs[d].path)

\* C5: once the version probe has resolved to true or false, no later pass
\* looks at cgroup.controllers again and the flag never changes, whatever
\* the filesystem does.
C5_ProbeResolvedOnce ==
    [][cgroups_v2 # "None" => cgroups_v2' = cgroups_v2 /\ probes' = probes]_vars

\* a pass ran while cgroup.controllers existed, after the probe had
\* resolved to false without it
C5_Witness ==
    /\ CgroupPassed
    /\ cgroups_v2 = "False"
    /\ ctlAtPass
    /\ probes = 1

\* C8: the tree is walked only for the v2 hierarchy: a pass whose probe has
\* resolved to false opens no per-cgroup file and writes no cgroup.* entry;
\* with true, every directory below the root is an instance keyed by its
\* path relative to the root, and the root is none.
C8_WalkOnlyV2 ==
    CgroupPassed =>
        /\ cgroups_v2 = "False" => opened = {} /\ wlog = {}
        /\ {w.key : w \in wlog} \subseteq {JoinPath(cgfs[d].path) : d \in DOMAIN cgfs}
        /\ \A w \in wlog : w.key # ""

----------------------------------------------------------------------------
(* CPU Source *)

\* os.sysconf('SC_CLK_TCK') of the host
USER_HZ == 100

\* ticks * MS_PER_JIFFY, with MS_PER_JIFFY = 1000 / (USER_HZ if USER_HZ > 0 else 100)
Jiffies(ticks) == Frac(ticks * 1000, IF USER_HZ > 0 THEN USER_HZ ELSE 100)

\* the four assignments of one "cpu" line, scalar or under the core
CpuWrites(st, prefix, core, nice, user, system, iowait) ==
    IF core # ""
    THEN LogInst(LogInst(LogInst(LogInst(st,
             prefix \o ".nice", core, Jiffies(DecimalValue(nice))),
             prefix \o ".user", core, Jiffies(DecimalValue(user))),
             prefix \o ".system", core, Jiffies(DecimalValue(system))),
             prefix \o ".iowait", core, Jiffies(DecimalValue(iowait)))
    ELSE LogScalar(LogScalar(LogScalar(LogScalar(st,
             prefix \o ".nice", Jiffies(DecimalValue(nice))),
             prefix \o ".user", Jiffies(DecimalValue(user))),
             prefix \o ".system", Jiffies(DecimalValue(system))),
             prefix \o ".iowait", Jiffies(DecimalValue(iowait)))

\* the loop of CPUSampler.sample over the lines of /proc/stat, each as split() gives it
RECURSIVE CpuLines(_, _, _)
CpuLines(st, lines, i) ==
    IF i > Len(lines) THEN st
    ELSE IF ~StartsWith(Chars(lines[i][1]), <<"c", "p", "u">>) THEN CpuLines(st, lines, i + 1)
    ELSE LET cpu == Chars(lines[i][1])
             user == lines[i][2]
             nice == lines[i][3]
             system == lines[i][4]
             iowait == lines[i][6]
             core == Text(SubSeq(cpu, 4, Len(cpu)))
         IN CpuLines(CpuWrites(st, IF core # "" THEN "cpu.core" ELSE "cpu.basic",
                               core, nice, user, system, iowait),
                     lines, i + 1)

\* CPUSampler.sample on the given /proc/stat
CPUSample(stat) ==
    /\ LET r == CpuLines(NoWrites(sink), stat, 1) IN
       sink' = r.sink /\ wlog' = r.writes
    /\ lastSrc' = "CPUSampler"
    /\ status' = "ok"
    /\ UNCHANGED <<tempVars, threadVars, diskVars, cgVars>>

----------------------------------------------------------------------------
(* Memory Source *)

\* int(v.strip(' kB\n')) on the value part of a /proc/meminfo line
KbValue(text) ==
    CASE text = "        1000 kB\n" -> 1000
      [] text = "         200 kB\n" -> 200
      [] text = "         300 kB\n" -> 300
      [] text = "          50 kB\n" -> 50
      [] text = "         100 kB\n" -> 100
      [] text = "          40 kB\n" -> 40

\* the dict comprehension: the last line of a key wins, a key of no line is absent
RECURSIVE MemItems(_, _, _)
MemItems(lines, i, items) ==
    IF i > Len(lines) THEN items
    ELSE MemItems(lines, i + 1,
                  [k \in DOMAIN items \cup {lines[i][1]} |->
                      IF k = lines[i][1] THEN KbValue(lines[i][2]) ELSE items[k]])

EmptyItems == [k \in {} |-> 0]

\* the four assignments of MemorySampler.sample; items[key] of an absent
\* key raises KeyError and ends sample() there
MemoryWrites(st, items) ==
    LET has(keys) == keys \subseteq DOMAIN items
        st1 == LogScalar(st, "memory.free", Num(1024 * items["MemFree"]))
        st2 == LogScalar(st1, "memory.used", Num(1024 * (items["MemTotal"] - items["MemAvailable"])))
        st3 == LogScalar(st2, "memory.cached", Num(1024 * (items["Buffers"] + items["Cached"])))
        st4 == LogScalar(st3, "memory.swap-used", Num(1024 * (items["SwapTotal"] - items["SwapFree"])))
    IN IF ~has({"MemFree"}) THEN [st EXCEPT !.raised = TRUE]
       ELSE IF ~has({"MemTotal", "MemAvailable"}) THEN [st1 EXCEPT !.raised = TRUE]
       ELSE IF ~has({"Buffers", "Cached"}) THEN [st2 EXCEPT !.raised = TRUE]
       ELSE IF ~has({"SwapTotal", "SwapFree"}) THEN [st3 EXCEPT !.raised = TRUE]
       ELSE st4

\* MemorySampler.sample on the given /proc/meminfo
MemorySample(meminfo) ==
    /\ LET r == MemoryWrites([sink |-> sink, writes |-> {}, raised |-> FALSE],
                             MemItems(meminfo, 1, EmptyItems)) IN
       /\ sink' = r.sink
       /\ wlog' = r.writes
       /\ status' = IF r.raised THEN "failed" ELSE "ok"
    /\ lastSrc' = "MemorySampler"
    /\ UNCHANGED <<tempVars, threadVars, diskVars, cgVars>>

----------------------------------------------------------------------------
(* Network Source *)

\* the loop of NetworkSampler.sample over the lines of /proc/net/dev
RECURSIVE NetLines(_, _, _)
NetLines(st, lines, i) ==
    IF i > Len(lines) THEN st
    ELSE LET fields == lines[i]
             first == Chars(fields[1])
         IN IF first[Len(first)] # ":" THEN NetLines(st, lines, i + 1)
            ELSE LET iface == Text(SubSeq(first, 1, Len(first) - 1)) IN
                 NetLines(LogInst(LogInst(st,
                              "network.interface.rx", iface, Num(DecimalValue(fields[2]))),
                              "network.interface.tx", iface, Num(DecimalValue(fields[10]))),
                          lines, i + 1)

\* NetworkSampler.sample on the given /proc/net/dev
NetworkSample(dev) ==
    /\ LET r == NetLines(NoWrites(sink), dev, 1) IN
       sink' = r.sink /\ wlog' = r.writes
    /\ lastSrc' = "NetworkSampler"
    /\ status' = "ok"
    /\ UNCHANGED <<tempVars, threadVars, diskVars, cgVars>>

----------------------------------------------------------------------------
(* Mount Source *)

\* os.statvfs(path)
Statvfs(path) ==
    CASE path = "/" -> [f_frsize |-> 4096, f_blocks |-> 1000, f_bfree |-> 400]
      [] path = "/proc" -> [f_frsize |-> 4096, f_blocks |-> 0, f_bfree |-> 0]

\* the loop of MountSampler.sample over the lines of /proc/mounts
RECURSIVE MountLines(_, _, _)
MountLines(st, lines, i) ==
    IF i > Len(lines) THEN st
    ELSE IF Chars(lines[i][1])[1] # "/" THEN MountLines(st, lines, i + 1)
    ELSE LET path == lines[i][2]
             res == Statvfs(path)
             frsize == res.f_frsize
             total == frsize * res.f_blocks
         IN MountLines(LogInst(LogInst(st,
                           "mount.total", path, Num(total)),
                           "mount.used", path, Num(total - frsize * res.f_bfree)),
                       lines, i + 1)

\* MountSampler.sample on the given /proc/mounts
MountSample(mounts) ==
    /\ LET r == MountLines(NoWrites(sink), mounts, 1) IN
       sink' = r.sink /\ wlog' = r.writes
    /\ lastSrc' = "MountSampler"
    /\ status' = "ok"
    /\ UNCHANGED <<tempVars, threadVars, diskVars, cgVars>>

----------------------------------------------------------------------------
(* Block-Device Source *)

\* the two assignments of one line
BlockWrites(st, dev_name, sectors_read, sectors_written) ==
    LogInst(LogInst(st,
        "block.device.read", dev_name, Num(DecimalValue(sectors_read) * 512)),
        "block.device.written", dev_name, Num(DecimalValue(sectors_written) * 512))

\* the loop of BlockSampler.sample over the lines of /proc/diskstats
RECURSIVE BlockLines(_, _, _)
BlockLines(st, lines, i) ==
    IF i > Len(lines) THEN st
    ELSE BlockLines(BlockWrites(st, lines[i][3], lines[i][6], lines[i][10]), lines, i + 1)

\* BlockSampler.sample on the given /proc/diskstats
BlockSample(lines) ==
    /\ LET r == BlockLines(NoWrites(sink), lines, 1) IN
       sink' = r.sink /\ wlog' = r.writes
    /\ lastSrc' = "BlockSampler"
    /\ status' = "ok"
    /\ UNCHANGED <<tempVars, threadVars, diskVars, cgVars>>

----------------------------------------------------------------------------
(* The registry, and all Sources sampling one host *)

Description(name, units, semantics, instanced) ==
    [name |-> name, units |-> units, semantics |-> semantics, instanced |-> instanced]

\* the descriptions attribute of each Sampler class
Descriptions(src) ==
    CASE src = "CPUSampler" ->
           {Description(n, "millisec", "counter", FALSE) :
               n \in {"cpu.basic.nice", "cpu.basic.user", "cpu.basic.system", "cpu.basic.iowait"}}
           \cup {Description(n, "millisec", "counter", TRUE) :
               n \in {"cpu.core.nice", "cpu.core.user", "cpu.core.system", "cpu.core.iowait"}}
      [] src = "MemorySampler" ->
           {Description(n, "bytes", "instant", FALSE) :
               n \in {"memory.free", "memory.used", "memory.cached", "memory.swap-used"}}
      [] src = "CPUTemperatureSampler" ->
           {Description("cpu.temperature", "celsius", "instant", TRUE)}
      [] src = "DiskSampler" ->
           {Description(n, "bytes", "counter", FALSE) : n \in {"disk.all.read", "disk.all.written"}}
      [] src = "CGroupSampler" ->
           {Description(n, "bytes", "instant", TRUE) :
               n \in {"cgroup.memory.usage", "cgroup.memory.limit",
                      "cgroup.memory.sw-usage", "cgroup.memory.sw-limit"}}
           \cup {Description("cgroup.cpu.usage", "millisec", "counter", TRUE),
                 Description("cgroup.cpu.shares", "count", "instant", TRUE)}
      [] src = "NetworkSampler" ->
           {Description(n, "bytes", "counter", TRUE) :
               n \in {"network.interface.tx", "network.interface.rx"}}
      [] src = "MountSampler" ->
           {Description(n, "bytes", "instant", TRUE) : n \in {"mount.total", "mount.used"}}
      [] src = "BlockSampler" ->
           {Description(n, "bytes", "counter", TRUE) :
               n \in {"block.device.read", "block.device.written"}}

SAMPLERS ==
    <<"BlockSampler", "CGroupSampler", "CPUSampler", "CPUTemperatureSampler",
      "DiskSampler", "MemorySampler", "MountSampler", "NetworkSampler">>

\* the files of one host, as successive passes find them
HostStat ==
    {<<<<"cpu", "100", "10", "50", "900", "20", "0">>,
       <<"cpu0", "100", "10", "50", "900", "20", "0">>,
       <<"intr", "1000">>>>}

HostMeminfo ==
    LET line(k, v) == <<k, v>>
        common == <<line("MemTotal", "        1000 kB\n"), line("MemFree", "         200 kB\n"),
                    line("Buffers", "          50 kB\n"), line("Cached", "          50 kB\n"),
                    line("SwapTotal", "         100 kB\n"), line("SwapFree", "          40 kB\n")>>
    IN {common \o <<line("MemAvailable", "         300 kB\n")>>, common}

HostNetDev ==
    {<<<<"Inter-|", "0", "0", "0", "0", "0", "0", "0", "0", "0">>,
       <<"face", "0", "0", "0", "0", "0", "0", "0", "0", "0">>,
       <<"lo:", "1000", "10", "0", "0", "0", "0", "0", "0", "1000">>,
       <<"eth0:", "900", "9", "0", "0", "0", "0", "0", "0", "300">>>>}

HostMounts == {<<<<"proc", "/proc", "proc">>, <<"/dev/sda1", "/", "ext4">>>>}

HostDiskstats ==
    {<<DiskLine(<<"8", "0", "sda">>, <<"3", "8", "5", "16">>),
       DiskLine(<<"8", "1", "sda1">>, <<"0", "2", "1", "0">>),
       DiskLine(<<"253", "0", "dm-0">>, <<"3", "8", "5", "16">>),
       DiskLine(<<"259", "0", "nvme0n1">>, <<"0", "2", "1", "0">>)>>}

HostHwmon == <<[name |-> "coretemp\n", labels |-> <<"Core 0\n">>]>>

HostCgfs ==
    <<[path |-> CgroupDirs[1],
       files |-> [f \in CgFileNames |->
                    IF f = "cpu.stat" THEN PlainStat
                    ELSE IF f = "memory.max" THEN TextFile("max\n") ELSE PlainInt]]>>

InitAll == InitCommon /\ hwmon = HostHwmon /\ ctlExists = TRUE /\ cgfs = HostCgfs

NextAll ==
    \/ \E lines \in HostDiskstats : BlockSample(lines)
    \/ CGroupSample
    \/ \E stat \in HostStat : CPUSample(stat)
    \/ TempSample
    \/ \E lines \in HostDiskstats : DiskSample(lines)
    \/ \E meminfo \in HostMeminfo : MemorySample(meminfo)
    \/ \E mounts \in HostMounts : MountSample(mounts)
    \/ \E dev \in HostNetDev : NetworkSample(dev)
    \/ NewSink

SpecAll == InitAll /\ [][NextAll]_vars

----------------------------------------------------------------------------
(* Claims about the registry *)

Sources == {SAMPLERS[i] : i \in DOMAIN SAMPLERS}

\* every assignment of the log goes to a name of decl, scalar or keyed as
\* that name's instanced flag says
AsDeclared(writes, decl) ==
    \A w \in writes : \E d \in decl : d.name = w.name /\ d.instanced = w.inst

\* the entries of the sink under names other than the given ones are the same
\* before and after the step
OthersUnchanged(names) ==
    \A e \in sink \cup sink' : e.name \notin names => (e \in sink <=> e \in sink')

NamesOf(decl) == {d.name : d \in decl}

\* C10 as stated: every write of a pass of a Source goes to a name of that
\* Source's own descriptions, in the shape its instanced flag fixes, and the
\* pass leaves the entries of every other name unchanged.
C10_WritesOnlyDeclared ==
    [][lastSrc' \in Sources =>
           /\ AsDeclared(wlog', Descriptions(lastSrc'))
           /\ OthersUnchanged(NamesOf(Descriptions(lastSrc')))]_vars

====
